---- MODULE Spec2Model ----
(***************************************************************************)
(* Model of the credential handlers of amazon-ecs-local-container-endpoints *)
(* (package handlers, CredentialService) and of the two routes main binds.  *)
(*                                                                          *)
(* Go strings that the code inspects character by character (the URL path,  *)
(* the role name, the session name, the error message, the rendered         *)
(* expiration) are sequences of one-character strings.  Strings the code    *)
(* only copies (key ids, secrets, tokens, ARNs) are TLA+ strings.  A Go     *)
(* pointer is a sequence of length 0 (nil) or 1.                            *)
(***************************************************************************)
EXTENDS Integers, Sequences, FiniteSets, TLC

\* ------------------------------------------------------------------ bounds

\* Number of HTTP requests the server handles (all may be in flight together).
MaxRequests == 2

\* Longest tail appended to a path prefix when every path is enumerated.
MaxTail == 3

\* ---------------------------------------------------------------- state

Requests == 1..MaxRequests

VARIABLES
    service,    \* the CredentialService: its two client handles
    pc,         \* per request: where its handler is
    request,    \* per request: the route that serves it and r.URL.Path
    locals,     \* per request: roleName and output of getRoleCredentials
    calls,      \* per request: the upstream calls it made, with their answers
    upstream,   \* per operation: how many calls the clients have received
    result,     \* per request: the (response, err) its resolver returned
    w           \* per request: what was written to its http.ResponseWriter

vars == <<service, pc, request, locals, calls, upstream, result, w>>

\* ------------------------------------------------------- pointers (aws.*)

Nil == <<>>

\* aws.String / aws.Int64: a pointer to the value.
Ptr(v) == <<v>>

\* aws.StringValue: the pointed-to string, "" for a nil pointer.
StringValue(p) == IF p = Nil THEN "" ELSE p[1]

\* -------------------------------------------------------- program constants

temporaryCredentialsDuration == 3600

StatusBadRequest == 400

\* ------------------------------------------------------------ the regexp

\* \w of Go's regexp (RE2): [0-9A-Za-z_].
WordChars ==
    {"a", "b", "c", "d", "e", "f", "g", "h", "i", "j", "k", "l", "m", "n", "o",
     "p", "q", "r", "s", "t", "u", "v", "w", "x", "y", "z", "A", "B", "C", "D",
     "E", "F", "G", "H", "I", "J", "K", "L", "M", "N", "O", "P", "Q", "R", "S",
     "T", "U", "V", "W", "X", "Y", "Z", "0", "1", "2", "3", "4", "5", "6", "7",
     "8", "9", "_"}

\* The character class [\w+=,.@-] of the role-name group.
RoleNameChars == WordChars \cup {"+", "=", ",", ".", "@", "-"}

\* The literal part of the pattern.
RolePrefix == <<"/", "r", "o", "l", "e", "/">>

\* The pattern `/role/([\w+=,.@-]+)` matches starting at position i of s:
\* the literal, then at least one character of the class.
MatchesAt(s, i) ==
    /\ i + Len(RolePrefix) <= Len(s)
    /\ SubSeq(s, i, i + Len(RolePrefix) - 1) = RolePrefix
    /\ s[i + Len(RolePrefix)] \in RoleNameChars

\* Last position of the greedy run of class characters that starts at from.
RunEnd(s, from) ==
    CHOOSE e \in from..Len(s) :
        /\ \A k \in from..e : s[k] \in RoleNameChars
        /\ (e = Len(s) \/ s[e + 1] \notin RoleNameChars)

\* regExpr.FindStringSubmatch(urlPath): the leftmost match anywhere in the
\* string (the pattern is not anchored) and its group, or nothing.
\* Go's urlParts[0], urlParts[1] are elements 1 and 2 here.
FindStringSubmatch(s) ==
    LET starts == {i \in 1..Len(s) : MatchesAt(s, i)} IN
    IF starts = {} THEN <<>>
    ELSE LET i == CHOOSE j \in starts : \A k \in starts : j <= k
             e == RunEnd(s, i + Len(RolePrefix))
         IN  <<SubSeq(s, i, e), SubSeq(s, i + Len(RolePrefix), e)>>

\* ------------------------------------------------------------ fmt.Sprintf

SessionNamePrefix == <<"e", "c", "s", "-", "l", "o", "c", "a", "l", "-">>

\* fmt.Sprintf("ecs-local-%s", roleName)
RoleSessionName(roleName) == SessionNamePrefix \o roleName

InvalidPathHead ==
    <<"I", "n", "v", "a", "l", "i", "d", " ", "U", "R", "L", " ", "p", "a",
      "t", "h", " ">>

InvalidPathTail ==
    <<";", " ", "e", "x", "p", "e", "c", "t", "e", "d", " ", "'", "/", "r",
      "o", "l", "e", "/", "<", "I", "A", "M", " ", "R", "o", "l", "e", " ",
      "N", "a", "m", "e", ">", "'">>

\* fmt.Errorf("Invalid URL path %s; expected '/role/<IAM Role Name>'", urlPath)
InvalidPathMessage(urlPath) == InvalidPathHead \o urlPath \o InvalidPathTail

\* HttpError{Code: code, Err: err}
HttpError(code, err) == [kind |-> "HttpError", Code |-> code, Err |-> err]

\* -------------------------------------------------- time.Format(RFC3339)

\* A time.Time: sec seconds after 2024-01-01T00:00:00Z, shown in a zone
\* zoneMin minutes east of UTC.  Instants stay within January 2024.
SecondsPerMinute == 60
SecondsPerHour == 3600
SecondsPerDay == 86400
BaseYear == 2024

DigitChars == <<"0", "1", "2", "3", "4", "5", "6", "7", "8", "9">>

Digit(d) == DigitChars[d + 1]

TwoDigits(n) == <<Digit((n \div 10) % 10), Digit(n % 10)>>

FourDigits(n) ==
    <<Digit((n \div 1000) % 10), Digit((n \div 100) % 10)>> \o TwoDigits(n)

\* The layout element "Z07:00": Z for UTC, else the signed offset.
ZoneSuffix(zoneMin) ==
    IF zoneMin = 0 THEN <<"Z">>
    ELSE LET a == IF zoneMin < 0 THEN -zoneMin ELSE zoneMin IN
         <<IF zoneMin < 0 THEN "-" ELSE "+">>
            \o TwoDigits(a \div 60) \o <<":">> \o TwoDigits(a % 60)

\* A slip of layout: "2006-01-02 15:04:05", no T and no zone.
FormatRFC3339_DateTime(t) ==
    LET local == t.sec + t.zoneMin * SecondsPerMinute
        day   == 1 + local \div SecondsPerDay
        rem   == local % SecondsPerDay
    IN  FourDigits(BaseYear) \o <<"-">> \o TwoDigits(1) \o <<"-">>
            \o TwoDigits(day) \o <<" ">>
            \o TwoDigits(rem \div SecondsPerHour) \o <<":">>
            \o TwoDigits((rem % SecondsPerHour) \div SecondsPerMinute) \o <<":">>
            \o TwoDigits(rem % SecondsPerMinute)

\* t.Format(time.RFC3339), layout "2006-01-02T15:04:05Z07:00".
FormatRFC3339(t) ==
    LET local == t.sec + t.zoneMin * SecondsPerMinute
        day   == 1 + local \div SecondsPerDay
        rem   == local % SecondsPerDay
    IN  FourDigits(BaseYear) \o <<"-">> \o TwoDigits(1) \o <<"-">>
            \o TwoDigits(day) \o <<"T">>
            \o TwoDigits(rem \div SecondsPerHour) \o <<":">>
            \o TwoDigits((rem % SecondsPerHour) \div SecondsPerMinute) \o <<":">>
            \o TwoDigits(rem % SecondsPerMinute)
            \o ZoneSuffix(t.zoneMin)

\* --------------------------------------------------- the response struct

\* A slip: the expiry computed locally (start of the model's clock plus the
\* requested duration) instead of taken from the answer.
RoleCredentialResponse_LocalExpiry(output, creds) ==
    [AccessKeyId     |-> StringValue(creds.Credentials.AccessKeyId),
     SecretAccessKey |-> StringValue(creds.Credentials.SecretAccessKey),
     RoleArn         |-> StringValue(output.Role.Arn),
     Token           |-> StringValue(creds.Credentials.SessionToken),
     Expiration      |-> FormatRFC3339([sec |-> temporaryCredentialsDuration,
                                        zoneMin |-> 0])]

\* The lookup output some request holds: what a field shared by all requests
\* would hold in place of a local variable.
SharedOutput(own) ==
    LET holders == {q \in Requests : locals[q].output # Nil} IN
    IF holders = {} THEN own
    ELSE locals[CHOOSE q \in holders : \A x \in holders : q <= x].output[1]

\* A slip: the ARN read from state shared by the requests.
RoleCredentialResponse_SharedArn(output, creds) ==
    [AccessKeyId     |-> StringValue(creds.Credentials.AccessKeyId),
     SecretAccessKey |-> StringValue(creds.Credentials.SecretAccessKey),
     RoleArn         |-> StringValue(SharedOutput(output).Role.Arn),
     Token           |-> StringValue(creds.Credentials.SessionToken),
     Expiration      |-> FormatRFC3339(creds.Credentials.Expiration[1])]

\* The credentialResponse literal of getRoleCredentials.
RoleCredentialResponse(output, creds) ==
    [AccessKeyId     |-> StringValue(creds.Credentials.AccessKeyId),
     SecretAccessKey |-> StringValue(creds.Credentials.SecretAccessKey),
     RoleArn         |-> StringValue(output.Role.Arn),
     Token           |-> StringValue(creds.Credentials.SessionToken),
     Expiration      |-> FormatRFC3339(creds.Credentials.Expiration[1])]

\* A slip: RoleArn filled from the last role looked up, when there is one.
TemporaryCredentialResponse_SharedArn(creds) ==
    [AccessKeyId     |-> StringValue(creds.Credentials.AccessKeyId),
     SecretAccessKey |-> StringValue(creds.Credentials.SecretAccessKey),
     RoleArn         |-> StringValue(SharedOutput([Role |-> [Arn |-> Nil]]).Role.Arn),
     Token           |-> StringValue(creds.Credentials.SessionToken),
     Expiration      |-> FormatRFC3339(creds.Credentials.Expiration[1])]

\* The credentialResponse literal of GetTemporaryCredentialHandler.
TemporaryCredentialResponse(creds) ==
    [AccessKeyId     |-> StringValue(creds.Credentials.AccessKeyId),
     SecretAccessKey |-> StringValue(creds.Credentials.SecretAccessKey),
     RoleArn         |-> "",
     Token           |-> StringValue(creds.Credentials.SessionToken),
     Expiration      |-> FormatRFC3339(creds.Credentials.Expiration[1])]

\* ------------------------------------------------------ upstream requests

\* &iam.GetRoleInput{RoleName: aws.String(roleName)}
GetRoleInput(roleName) == [RoleName |-> Ptr(roleName)]

\* A slip: the ARN read from state shared by the requests.
AssumeRoleInput_SharedArn(output, roleName) ==
    [RoleArn         |-> SharedOutput(output).Role.Arn,
     DurationSeconds |-> Ptr(temporaryCredentialsDuration),
     RoleSessionName |-> Ptr(RoleSessionName(roleName))]

\* A slip: DurationSeconds left unset.
AssumeRoleInput_NoDuration(output, roleName) ==
    [RoleArn         |-> output.Role.Arn,
     DurationSeconds |-> Nil,
     RoleSessionName |-> Ptr(RoleSessionName(roleName))]

\* &sts.AssumeRoleInput{RoleArn, DurationSeconds, RoleSessionName}
AssumeRoleInput(output, roleName) ==
    [RoleArn         |-> output.Role.Arn,
     DurationSeconds |-> Ptr(temporaryCredentialsDuration),
     RoleSessionName |-> Ptr(RoleSessionName(roleName))]

\* &sts.GetSessionTokenInput{DurationSeconds}
GetSessionTokenInput == [DurationSeconds |-> Ptr(temporaryCredentialsDuration)]

\* ------------------------------------------- upstream answers (environment)

\* What the IAM and STS clients may answer: an error, or an output.  The
\* ARN of a role and the members of Credentials are required members of the
\* service's answers, so a successful answer carries them.
RoleArns ==
    {"arn:aws:iam::111111111111:role/app-role",
     "arn:aws:iam::222222222222:role/other-role"}

IssuedCredentials ==
    {[AccessKeyId     |-> Ptr("AKIA1"),
      SecretAccessKey |-> Ptr("secret1"),
      SessionToken    |-> Ptr("token1"),
      Expiration      |-> Ptr([sec |-> 3600, zoneMin |-> 0])],
     [AccessKeyId     |-> Ptr("AKIA2"),
      SecretAccessKey |-> Ptr("secret2"),
      SessionToken    |-> Ptr("token2"),
      Expiration      |-> Ptr([sec |-> 90061, zoneMin |-> 0])],
     [AccessKeyId     |-> Ptr("AKIA3"),
      SecretAccessKey |-> Ptr("secret3"),
      SessionToken    |-> Ptr("token3"),
      Expiration      |-> Ptr([sec |-> 7200, zoneMin |-> -90])]}

UpstreamError(code) == [kind |-> "awserr", code |-> code]

Answer(value, err) == [value |-> value, err |-> err]

GetRoleAnswers ==
    {Answer(Ptr([Role |-> [Arn |-> Ptr(a)]]), Nil) : a \in RoleArns}
        \cup {Answer(Nil, Ptr(UpstreamError("NoSuchEntity")))}

AssumeRoleAnswers ==
    {Answer(Ptr([Credentials |-> c]), Nil) : c \in IssuedCredentials}
        \cup {Answer(Nil, Ptr(UpstreamError("AccessDenied")))}

GetSessionTokenAnswers ==
    {Answer(Ptr([Credentials |-> c]), Nil) : c \in IssuedCredentials}
        \cup {Answer(Nil, Ptr(UpstreamError("ExpiredToken")))}

\* ------------------------------------------------------------ request paths

RECURSIVE SeqsUpTo(_, _)
\* Every sequence over alphabet of length at most n.
SeqsUpTo(alphabet, n) ==
    IF n = 0 THEN {<<>>}
    ELSE LET shorter == SeqsUpTo(alphabet, n - 1) IN
         shorter \cup {Append(t, c) : t \in shorter, c \in alphabet}

PathPrefixes ==
    {<<>>,
     RolePrefix,
     <<"/", "r", "o", "l", "e">>,
     <<"/", "v", "2">> \o RolePrefix,
     RolePrefix \o <<"a", "p", "p", "-", "r", "o", "l", "e">>}

TailChars == {"a", "=", " ", "/"}

\* Every path the role handler is tried on, one request at a time.
AllPaths == {p \o t : p \in PathPrefixes, t \in SeqsUpTo(TailChars, MaxTail)}

\* The paths of concurrent requests.
SamplePaths ==
    {RolePrefix \o <<"a">>,
     RolePrefix \o <<"b", ".", "c">>,
     RolePrefix,
     <<"/", "r", "o", "l", "e", "n", "a", "m", "e">>,
     RolePrefix \o <<"a", " ", "b">>}

CredsPath == <<"/", "c", "r", "e", "d", "s">>

\* ------------------------------------------------------- the initial state

NoLocals == [roleName |-> <<>>, output |-> Nil]

\* NewCredentialService, then main's two HandleFunc registrations: the
\* server is up and no request has arrived.
Init ==
    /\ service = [iamClient |-> "iam.New(sess)", stsClient |-> "sts.New(sess)"]
    /\ pc = [r \in Requests |-> "idle"]
    /\ request = [r \in Requests |-> [route |-> "", path |-> <<>>]]
    /\ locals = [r \in Requests |-> NoLocals]
    /\ calls = [r \in Requests |-> <<>>]
    /\ upstream = [GetRole |-> 0, AssumeRole |-> 0, GetSessionToken |-> 0]
    /\ result = [r \in Requests |-> [response |-> Nil, err |-> Nil]]
    /\ w = [r \in Requests |-> [status |-> 0, body |-> Nil]]

\* ------------------------------------------------------------- the writer

StatusOK == 200
StatusInternalServerError == 500

\* writeJSONResponse(w, response): the response as the JSON body of a 200.
writeJSONResponse(response) ==
    [status |-> StatusOK, body |-> Ptr([json |-> response])]

\* handlers.ServeHTTP around a handler that returned err without writing:
\* the status an HttpError carries, 500 for any other error.
ServeHTTPError(err) ==
    [status |-> IF err.kind = "HttpError" THEN err.Code
                ELSE StatusInternalServerError,
     body   |-> Ptr([error |-> err])]

\* The handler of request r ends: its resolver returned (response, err).
Finish(r, response, err) ==
    /\ result' = [result EXCEPT ![r] = [response |-> response, err |-> err]]
    /\ w' = [w EXCEPT ![r] = IF err = Nil THEN writeJSONResponse(response[1])
                             ELSE ServeHTTPError(err[1])]
    /\ pc' = [pc EXCEPT ![r] = "done"]

\* The client named by handle receives a call of request r.
Call(r, handle, op, input) ==
    /\ calls' = [calls EXCEPT ![r] =
                    Append(@, [client |-> handle, op |-> op, input |-> input,
                               answer |-> Nil])]
    /\ upstream' = [upstream EXCEPT ![op] = @ + 1]
    /\ pc' = [pc EXCEPT ![r] = op]

\* The pending call of request r is answered.
Answered(r, answer) ==
    [calls EXCEPT ![r][Len(calls[r])].answer = Ptr(answer)]

\* -------------------------------------------------------------- actions

\* GetRoleHandler's closure starts on r.URL.Path and runs getRoleCredentials
\* up to the GetRole call, or to the 400 it returns.
GetRoleHandler(r, urlPath) ==
    /\ pc[r] = "idle"
    /\ request' = [request EXCEPT ![r] = [route |-> "/role/", path |-> urlPath]]
    /\ LET urlParts == FindStringSubmatch(urlPath) IN
       IF Len(urlParts) < 2
       THEN /\ Finish(r, Nil,
                      Ptr(HttpError(StatusBadRequest, InvalidPathMessage(urlPath))))
            /\ UNCHANGED <<service, locals, calls, upstream>>
       ELSE /\ locals' = [locals EXCEPT ![r].roleName = urlParts[2]]
            /\ Call(r, service.iamClient, "GetRole", GetRoleInput(urlParts[2]))
            /\ UNCHANGED <<service, result, w>>

\* A slip: a failed lookup turned into a 404 HttpError.
GetRoleReturns_NotFound(r, answer) ==
    /\ pc[r] = "GetRole"
    /\ IF answer.err # Nil
       THEN /\ Finish(r, Nil, Ptr(HttpError(404, answer.err[1])))
            /\ calls' = Answered(r, answer)
            /\ UNCHANGED <<service, request, locals, upstream>>
       ELSE /\ locals' = [locals EXCEPT ![r].output = answer.value]
            /\ calls' = [Answered(r, answer) EXCEPT ![r] =
                            Append(@, [client |-> service.stsClient,
                                       op |-> "AssumeRole",
                                       input |-> AssumeRoleInput(answer.value[1],
                                                                 locals[r].roleName),
                                       answer |-> Nil])]
            /\ upstream' = [upstream EXCEPT !.AssumeRole = @ + 1]
            /\ pc' = [pc EXCEPT ![r] = "AssumeRole"]
            /\ UNCHANGED <<service, request, result, w>>

\* The requests that already succeeded for the role of this lookup answer.
ServedFor(answer) ==
    {q \in Requests : /\ pc[q] = "done" /\ result[q].response # Nil
                      /\ locals[q].output = answer.value}

\* A slip: a cache, the credentials of an earlier request for the same role
\* served again without a new AssumeRole call.
GetRoleReturns_Cached(r, answer) ==
    /\ pc[r] = "GetRole"
    /\ IF answer.err # Nil
       THEN /\ Finish(r, Nil, answer.err)
            /\ calls' = Answered(r, answer)
            /\ UNCHANGED <<service, request, locals, upstream>>
       ELSE IF ServedFor(answer) # {}
       THEN /\ Finish(r, result[CHOOSE q \in ServedFor(answer) : TRUE].response, Nil)
            /\ locals' = [locals EXCEPT ![r].output = answer.value]
            /\ calls' = Answered(r, answer)
            /\ UNCHANGED <<service, request, upstream>>
       ELSE /\ locals' = [locals EXCEPT ![r].output = answer.value]
            /\ calls' = [Answered(r, answer) EXCEPT ![r] =
                            Append(@, [client |-> service.stsClient,
                                       op |-> "AssumeRole",
                                       input |-> AssumeRoleInput(answer.value[1],
                                                                 locals[r].roleName),
                                       answer |-> Nil])]
            /\ upstream' = [upstream EXCEPT !.AssumeRole = @ + 1]
            /\ pc' = [pc EXCEPT ![r] = "AssumeRole"]
            /\ UNCHANGED <<service, request, result, w>>

\* iamClient.GetRole returns: on error getRoleCredentials returns it, else
\* it calls stsClient.AssumeRole.
GetRoleReturns(r, answer) ==
    /\ pc[r] = "GetRole"
    /\ IF answer.err # Nil
       THEN /\ Finish(r, Nil, answer.err)
            /\ calls' = Answered(r, answer)
            /\ UNCHANGED <<service, request, locals, upstream>>
       ELSE /\ locals' = [locals EXCEPT ![r].output = answer.value]
            /\ calls' = [Answered(r, answer) EXCEPT ![r] =
                            Append(@, [client |-> service.stsClient,
                                       op |-> "AssumeRole",
                                       input |-> AssumeRoleInput(answer.value[1],
                                                                 locals[r].roleName),
                                       answer |-> Nil])]
            /\ upstream' = [upstream EXCEPT !.AssumeRole = @ + 1]
            /\ pc' = [pc EXCEPT ![r] = "AssumeRole"]
            /\ UNCHANGED <<service, request, result, w>>

\* stsClient.AssumeRole returns: on error getRoleCredentials returns it, else
\* it returns the response, which GetRoleHandler writes.
AssumeRoleReturns(r, answer) ==
    /\ pc[r] = "AssumeRole"
    /\ calls' = Answered(r, answer)
    /\ IF answer.err # Nil
       THEN Finish(r, Nil, answer.err)
       ELSE Finish(r, Ptr(RoleCredentialResponse(locals[r].output[1],
                                                 answer.value[1])), Nil)
    /\ UNCHANGED <<service, request, locals, upstream>>

\* GetTemporaryCredentialHandler's closure starts and calls GetSessionToken.
GetTemporaryCredentialHandler(r) ==
    /\ pc[r] = "idle"
    /\ request' = [request EXCEPT ![r] = [route |-> "/creds", path |-> CredsPath]]
    /\ Call(r, service.stsClient, "GetSessionToken", GetSessionTokenInput)
    /\ UNCHANGED <<service, locals, result, w>>

\* stsClient.GetSessionToken returns: on error the handler returns it, else
\* it writes the response.
GetSessionTokenReturns(r, answer) ==
    /\ pc[r] = "GetSessionToken"
    /\ calls' = Answered(r, answer)
    /\ IF answer.err # Nil
       THEN Finish(r, Nil, answer.err)
       ELSE Finish(r, Ptr(TemporaryCredentialResponse(answer.value[1])), Nil)
    /\ UNCHANGED <<service, request, locals, upstream>>

\* ------------------------------------------------------- specifications

\* The server under concurrent requests: every request has its own
\* goroutine, and upstream answers arrive in any order.
Next ==
    \E r \in Requests :
        \/ \E urlPath \in SamplePaths : GetRoleHandler(r, urlPath)
        \/ \E answer \in GetRoleAnswers : GetRoleReturns(r, answer)
        \/ \E answer \in AssumeRoleAnswers : AssumeRoleReturns(r, answer)
        \/ GetTemporaryCredentialHandler(r)
        \/ \E answer \in GetSessionTokenAnswers : GetSessionTokenReturns(r, answer)

Spec == Init /\ [][Next]_vars

\* A single request, the role handler tried on every path.
FirstRequest == CHOOSE r \in Requests : \A q \in Requests : r <= q

NextResolver ==
    \/ \E urlPath \in AllPaths : GetRoleHandler(FirstRequest, urlPath)
    \/ \E answer \in GetRoleAnswers : GetRoleReturns(FirstRequest, answer)
    \/ \E answer \in AssumeRoleAnswers : AssumeRoleReturns(FirstRequest, answer)
    \/ GetTemporaryCredentialHandler(FirstRequest)
    \/ \E answer \in GetSessionTokenAnswers :
            GetSessionTokenReturns(FirstRequest, answer)

SpecResolver == Init /\ [][NextResolver]_vars

\* ============================================================ properties

Done(r) == pc[r] = "done"

Succeeded(r) == Done(r) /\ result[r].err = Nil

IsRoleRequest(r) == request[r].route = "/role/"

IsCredsRequest(r) == request[r].route = "/creds"

\* The path is exactly /role/<validName>: the prefix, then one or more
\* characters of the role-name class, and nothing else.
WellFormedRolePath(path) ==
    /\ Len(path) > Len(RolePrefix)
    /\ SubSeq(path, 1, Len(RolePrefix)) = RolePrefix
    /\ \A i \in (Len(RolePrefix) + 1)..Len(path) : path[i] \in RoleNameChars

\* sub occurs in s.
Contains(s, sub) ==
    \E i \in 1..(Len(s) - Len(sub) + 1) : SubSeq(s, i, i + Len(sub) - 1) = sub

\* The resolver of request r returned the 400 of a rejected path.
Rejected(r) ==
    /\ Done(r)
    /\ result[r].response = Nil
    /\ result[r].err # Nil
    /\ result[r].err[1].kind = "HttpError"
    /\ result[r].err[1].Code = 400

\* The answer to the i-th upstream call of request r (it has been answered).
AnswerOf(r, i) == calls[r][i].answer[1]

CallOps(r) == [i \in 1..Len(calls[r]) |-> calls[r][i].op]

\* ----- RFC 3339, section 5.6, read independently of the formatter.

IsDigit(c) == \E d \in 0..9 : DigitChars[d + 1] = c

DigitValue(c) == CHOOSE d \in 0..9 : DigitChars[d + 1] = c

Number(s, i, j) ==
    IF j = i + 1 THEN 10 * DigitValue(s[i]) + DigitValue(s[j])
    ELSE 1000 * DigitValue(s[i]) + 100 * DigitValue(s[i + 1])
            + 10 * DigitValue(s[i + 2]) + DigitValue(s[j])

DaysIn(year, month) ==
    IF month \in {4, 6, 9, 11} THEN 30
    ELSE IF month # 2 THEN 31
    ELSE IF year % 4 = 0 /\ (year % 100 # 0 \/ year % 400 = 0) THEN 29
    ELSE 28

\* s is date-time = full-date "T" full-time of RFC 3339.
IsRFC3339(s) ==
    /\ Len(s) \in {20, 25}
    /\ \A i \in {1, 2, 3, 4, 6, 7, 9, 10, 12, 13, 15, 16, 18, 19} : IsDigit(s[i])
    /\ s[5] = "-" /\ s[8] = "-" /\ s[11] = "T" /\ s[14] = ":" /\ s[17] = ":"
    /\ Number(s, 6, 7) \in 1..12
    /\ Number(s, 9, 10) \in 1..DaysIn(Number(s, 1, 4), Number(s, 6, 7))
    /\ Number(s, 12, 13) \in 0..23
    /\ Number(s, 15, 16) \in 0..59
    /\ Number(s, 18, 19) \in 0..59
    /\ IF Len(s) = 20 THEN s[20] = "Z"
       ELSE /\ s[20] \in {"+", "-"}
            /\ IsDigit(s[21]) /\ IsDigit(s[22]) /\ s[23] = ":"
            /\ IsDigit(s[24]) /\ IsDigit(s[25])
            /\ Number(s, 21, 22) \in 0..23
            /\ Number(s, 24, 25) \in 0..59

\* The instant a January 2024 RFC 3339 timestamp names, in seconds after
\* 2024-01-01T00:00:00Z.
InstantOf(s) ==
    LET offset == IF Len(s) = 20 THEN 0
                  ELSE (IF s[20] = "-" THEN -1 ELSE 1)
                          * (60 * Number(s, 21, 22) + Number(s, 24, 25))
    IN  (Number(s, 9, 10) - 1) * 86400 + Number(s, 12, 13) * 3600
            + Number(s, 15, 16) * 60 + Number(s, 18, 19) - offset * 60

\* s is an RFC 3339 rendering of the time.Time t.
Renders(s, t) ==
    /\ IsRFC3339(s)
    /\ Number(s, 1, 4) = 2024 /\ Number(s, 6, 7) = 1
    /\ InstantOf(s) = t.sec

\* response carries exactly the credentials c issued upstream.
CarriesCredentials(response, c) ==
    /\ response.AccessKeyId = c.AccessKeyId[1]
    /\ response.SecretAccessKey = c.SecretAccessKey[1]
    /\ response.Token = c.SessionToken[1]
    /\ Renders(response.Expiration, c.Expiration[1])

\* ----- C1

\* C1: a role request whose path is not exactly /role/<validName> ends with
\* an HttpError of Code 400 whose message contains the path, and with no
\* response.
C1_MalformedPathRejected ==
    \A r \in Requests :
        (Done(r) /\ IsRoleRequest(r) /\ ~WellFormedRolePath(request[r].path))
            => /\ Rejected(r)
               /\ Contains(result[r].err[1].Err, request[r].path)

\* ----- C2

\* C2: a role request that succeeded carries exactly the key id, secret and
\* token AssumeRole answered to it, the rendering of the expiry instant of
\* that answer, and the ARN that its own GetRole answered.
C2_RoleResponseFromUpstream ==
    \A r \in Requests :
        (Succeeded(r) /\ IsRoleRequest(r))
            => /\ Len(calls[r]) = 2
               /\ result[r].response # Nil
               /\ CarriesCredentials(result[r].response[1],
                                     AnswerOf(r, 2).value[1].Credentials)
               /\ result[r].response[1].RoleArn
                      = AnswerOf(r, 1).value[1].Role.Arn[1]

\* Two role requests succeeded with different ARNs, credentials and expiry
\* instants, one of them rendered in a zone other than UTC.
C2_Witness ==
    \E r, q \in Requests :
        /\ Succeeded(r) /\ IsRoleRequest(r)
        /\ Succeeded(q) /\ IsRoleRequest(q)
        /\ result[r].response[1].RoleArn # result[q].response[1].RoleArn
        /\ result[r].response[1].AccessKeyId # result[q].response[1].AccessKeyId
        /\ Len(result[r].response[1].Expiration) = 25
        /\ Len(result[q].response[1].Expiration) = 20

\* ----- C3

\* C3: a /creds request that succeeded has RoleArn "" and otherwise the
\* values GetSessionToken answered to it, whatever the other requests did.
C3_CredsHasNoRoleArn ==
    \A r \in Requests :
        (Succeeded(r) /\ IsCredsRequest(r))
            => /\ result[r].response # Nil
               /\ result[r].response[1].RoleArn = ""
               /\ Len(calls[r]) = 1
               /\ CarriesCredentials(result[r].response[1],
                                     AnswerOf(r, 1).value[1].Credentials)

\* A /creds request succeeded although a role request had already got its
\* ARN before the /creds request was answered.
C3_Witness ==
    \E r, q \in Requests :
        /\ Succeeded(r) /\ IsCredsRequest(r)
        /\ IsRoleRequest(q) /\ locals[q].output # Nil
        /\ w[r].status = 200

\* ----- C4

\* C4: when GetRole or AssumeRole answers a role request with an error, the
\* resolver returns no response and that very error, which is no HttpError.
C4_UpstreamErrorUnmodified ==
    \A r \in Requests :
        \A i \in 1..Len(calls[r]) :
            (IsRoleRequest(r) /\ calls[r][i].answer # Nil /\ AnswerOf(r, i).err # Nil)
                => /\ Done(r)
                   /\ result[r].response = Nil
                   /\ result[r].err = AnswerOf(r, i).err
                   /\ result[r].err[1].kind # "HttpError"

\* One role request ended on a failed lookup, another on a failed assumption.
C4_Witness ==
    \E r, q \in Requests :
        /\ Done(r) /\ Len(calls[r]) = 1 /\ calls[r][1].op = "GetRole"
        /\ AnswerOf(r, 1).err # Nil
        /\ Done(q) /\ Len(calls[q]) = 2 /\ AnswerOf(q, 2).err # Nil

\* ----- C5

\* Some upstream call of request r was answered with an error.
UpstreamFailed(r) ==
    \E i \in 1..Len(calls[r]) : calls[r][i].answer # Nil /\ AnswerOf(r, i).err # Nil

\* C5: the status written is 200 with a JSON credential body exactly when the
\* resolver succeeded, 400 exactly when the role path was malformed, 500 for
\* every upstream failure; /creds never gives 400, and no credential body is
\* written when an error is returned.
C5_StatusByOutcome ==
    \A r \in Requests :
        Done(r)
            => /\ (w[r].status = 200) <=> (result[r].err = Nil)
               /\ (w[r].status = 200) => w[r].body = Ptr([json |-> result[r].response[1]])
               /\ (w[r].status = 400)
                      <=> (IsRoleRequest(r) /\ ~WellFormedRolePath(request[r].path))
               /\ UpstreamFailed(r) => w[r].status = 500
               /\ IsCredsRequest(r) => w[r].status # 400
               /\ (result[r].err # Nil) => w[r].body # Nil /\ w[r].body[1] = [error |-> result[r].err[1]]

\* ----- C6

\* Number of upstream calls made by the requests in rs.
RECURSIVE CallsOf(_)
CallsOf(rs) ==
    IF rs = {} THEN 0
    ELSE LET r == CHOOSE x \in rs : TRUE IN Len(calls[r]) + CallsOf(rs \ {r})

\* C6 as stated: every request, whatever its path, adds upstream calls.
C6_EveryRequestCallsUpstream ==
    \A r \in Requests : Done(r) => Len(calls[r]) >= 1

\* C6 as amended: a successful role request made exactly one GetRole and one
\* AssumeRole call, a successful /creds request exactly one GetSessionToken
\* call; every request whose path was accepted made at least one upstream
\* call of its own, a request rejected with 400 made none; the clients
\* received exactly the calls the requests made; and a successful response
\* carries the credentials of the request's own last call.
C6_FreshUpstreamCalls ==
    /\ \A r \in Requests :
        /\ (Succeeded(r) /\ IsRoleRequest(r)) => CallOps(r) = <<"GetRole", "AssumeRole">>
        /\ (Succeeded(r) /\ IsCredsRequest(r)) => CallOps(r) = <<"GetSessionToken">>
        /\ (pc[r] # "idle" /\ ~Rejected(r)) => Len(calls[r]) >= 1
        /\ Rejected(r) => Len(calls[r]) = 0
        /\ Succeeded(r)
              => result[r].response[1].AccessKeyId
                    = AnswerOf(r, Len(calls[r])).value[1].Credentials.AccessKeyId[1]
    /\ upstream.GetRole + upstream.AssumeRole + upstream.GetSessionToken
          = CallsOf(Requests)

\* Two requests for the same role both succeeded, each after its own GetRole
\* and AssumeRole call, and with different credentials.
C6_Witness ==
    \E r, q \in Requests :
        /\ r # q
        /\ Succeeded(r) /\ Succeeded(q)
        /\ IsRoleRequest(r) /\ request[q] = request[r]
        /\ result[r].response[1].AccessKeyId # result[q].response[1].AccessKeyId
        /\ upstream.GetRole = 2 /\ upstream.AssumeRole = 2

\* ----- C7

\* C7: a role request that succeeded has a non-empty RoleArn and an
\* Expiration that is a valid RFC 3339 timestamp.
C7_ArnAndExpirationValid ==
    \A r \in Requests :
        (Succeeded(r) /\ IsRoleRequest(r))
            => /\ result[r].response[1].RoleArn # ""
               /\ IsRFC3339(result[r].response[1].Expiration)

\* A request for a role whose name uses a non-word character of the class
\* succeeded with an expiry rendered with a zone offset.
C7_Witness ==
    \E r \in Requests :
        /\ Succeeded(r) /\ IsRoleRequest(r)
        /\ WellFormedRolePath(request[r].path)
        /\ \E i \in 1..Len(locals[r].roleName) : locals[r].roleName[i] = "="
        /\ Len(result[r].response[1].Expiration) = 25

\* ----- C8

\* C8: the upstream calls of a role request are a prefix of GetRole,
\* AssumeRole; a rejected path made none; GetRole is called only with a name
\* found in the path; a failed lookup is not followed by AssumeRole; and
\* AssumeRole is called only after the request's own lookup succeeded, with
\* the ARN that lookup answered.
C8_StepsInOrder ==
    \A r \in Requests :
        IsRoleRequest(r)
            => /\ CallOps(r) \in {<<>>, <<"GetRole">>, <<"GetRole", "AssumeRole">>}
               /\ Rejected(r) => calls[r] = <<>>
               /\ Len(calls[r]) >= 1
                     => /\ calls[r][1].input.RoleName # Nil
                        /\ calls[r][1].input.RoleName[1] # <<>>
                        /\ Contains(request[r].path,
                                    RolePrefix \o calls[r][1].input.RoleName[1])
               /\ (Len(calls[r]) >= 1 /\ calls[r][1].answer # Nil
                       /\ AnswerOf(r, 1).err # Nil)
                     => Len(calls[r]) = 1
               /\ Len(calls[r]) = 2
                     => /\ calls[r][1].answer # Nil
                        /\ AnswerOf(r, 1).err = Nil
                        /\ calls[r][2].input.RoleArn
                              = AnswerOf(r, 1).value[1].Role.Arn

\* Two role requests are both waiting for AssumeRole, each called with the
\* ARN of its own lookup, and the two ARNs differ.
C8_Witness ==
    \E r, q \in Requests :
        /\ pc[r] = "AssumeRole" /\ pc[q] = "AssumeRole"
        /\ calls[r][2].input.RoleArn # calls[q][2].input.RoleArn

\* ----- C9

\* C9: every AssumeRole and GetSessionToken call asks for 3600 seconds, and
\* every AssumeRole call carries the session name ecs-local-<roleName> for
\* the role name of the same request's GetRole call.
C9_DurationAndSessionName ==
    \A r \in Requests :
        \A i \in 1..Len(calls[r]) :
            /\ calls[r][i].op \in {"AssumeRole", "GetSessionToken"}
                  => calls[r][i].input.DurationSeconds = <<3600>>
            /\ calls[r][i].op = "AssumeRole"
                  => /\ i = 2
                     /\ calls[r][i].input.RoleSessionName
                           = << <<"e", "c", "s", "-", "l", "o", "c", "a", "l", "-">>
                                    \o calls[r][1].input.RoleName[1] >>

\* An AssumeRole call and a GetSessionToken call have both been made, the
\* first for a role name of more than one character.
C9_Witness ==
    \E r, q \in Requests :
        /\ Len(calls[r]) = 2 /\ calls[r][2].op = "AssumeRole"
        /\ Len(locals[r].roleName) > 1
        /\ Len(calls[q]) = 1 /\ calls[q][1].op = "GetSessionToken"

\* ----- C10

\* The result of request r follows from its own path and from the answers
\* to its own calls.
OwnOutcome(r) ==
    IF calls[r] = <<>>
    THEN /\ Rejected(r)
         /\ Contains(result[r].err[1].Err, request[r].path)
    ELSE LET last == AnswerOf(r, Len(calls[r])) IN
         IF last.err # Nil
         THEN result[r] = [response |-> Nil, err |-> last.err]
         ELSE /\ result[r].err = Nil
              /\ result[r].response # Nil
              /\ CarriesCredentials(result[r].response[1], last.value[1].Credentials)
              /\ result[r].response[1].RoleArn
                    = IF IsCredsRequest(r) THEN ""
                      ELSE AnswerOf(r, 1).value[1].Role.Arn[1]

\* Two finished requests with the same route, path and upstream answers
\* ended the same way.
SameInputsSameOutcome ==
    \A r, q \in Requests :
        (Done(r) /\ Done(q) /\ request[r] = request[q] /\ calls[r] = calls[q])
            => (result[r] = result[q] /\ w[r] = w[q])

\* Every call went through the client handle the service was built with.
CallsUseHandles ==
    \A r \in Requests :
        \A i \in 1..Len(calls[r]) :
            calls[r][i].client
                = IF calls[r][i].op = "GetRole" THEN "iam.New(sess)"
                  ELSE "sts.New(sess)"

\* C10: under every interleaving, the outcome of a finished request follows
\* from its own path and the answers to its own calls; and no step changes
\* the service, whose two client handles stay those of construction.
C10_RequestsIndependent ==
    /\ [](\A r \in Requests : Done(r) => OwnOutcome(r))
    /\ []SameInputsSameOutcome
    /\ []CallsUseHandles
    /\ [][service' = service]_vars

\* A role request has finished with one ARN and credentials while another
\* role request, looked up with a different ARN, is still waiting for
\* AssumeRole; both were in flight together.
C10_Witness ==
    \E r, q \in Requests :
        /\ Succeeded(r) /\ IsRoleRequest(r)
        /\ pc[q] = "AssumeRole"
        /\ locals[q].output # locals[r].output
        /\ locals[q].roleName # locals[r].roleName

====
